---- MODULE Spec2Model ----
(***************************************************************************)
(* A model of evmone's basic-block code analysis (lib/evmone/analysis.cpp, *)
(* analysis.hpp) and of the dispatch loop of execute (execution.cpp).      *)
(*                                                                         *)
(* Indices into instrs, jumpdest_targets and begin_block_index keep the    *)
(* 0-based values of the source; the TLA+ sequence element i lives at      *)
(* position i + 1.  Code offsets are 0-based as well.                      *)
(***************************************************************************)
EXTENDS Integers, Sequences, FiniteSets, TLC

VARIABLES
    rev,               \* evmc_revision the code is analysed / executed for
    code,              \* the input bytes (code, code_size = Len(code))
    phase,             \* position of the program: in analyze "analyze", "analyzed";
                       \* in execute "execute", "dispatch", "done"
    code_pos,          \* analyze: scan position, as the offset code_pos - code
    instrs,            \* code_analysis::instrs
    jumpdest_offsets,  \* code_analysis::jumpdest_offsets
    jumpdest_targets,  \* code_analysis::jumpdest_targets
    block,             \* analyze: the block_analysis accumulator
    msg_gas,           \* execute: msg->gas, the gas the execution starts with
    instr,             \* execute: index of the current instruction, NULL for nullptr
    gas_left,          \* execution_state::gas_left
    stack,             \* execution_state::stack (top is the last element)
    status,            \* execution_state::status
    current_block_cost,\* execution_state::current_block_cost
    result,            \* the evmc_result of execute: [status_code, gas_left], NoResult before
    hist               \* history of the run, kept to state the properties: see NoHistory

vars == <<rev, code, phase, code_pos, instrs, jumpdest_offsets, jumpdest_targets, block,
          msg_gas, instr, gas_left, stack, status, current_block_cost, result, hist>>

analysisVars == <<code_pos, instrs, jumpdest_offsets, jumpdest_targets, block>>
execVars == <<instr, gas_left, stack, status, current_block_cost, result>>

(***************************************************************************)
(* Bounds of the exploration.                                              *)
(***************************************************************************)
MaxLen == 4        \* longest code enumerated for the analysis
MaxStackLen == 4   \* longest code enumerated for the stack requirements
MaxExecLen == 4    \* longest code enumerated for the execution
MaxGas == 30       \* the initial gas of the enumerated executions, besides 0
ScenarioGas == 100 \* the initial gas of the scenario executions
OverflowGas == 16000 \* the initial gas of the execution that fills the stack
MaxLoopLen == 4 \* the longest code of SpecLoop
LoopGas == 60 \* the initial gas of the executions of SpecLoop
MaxScanLen == 4 \* the longest code of SpecScan
MaxSatSuffix == 2 \* the bytes after the run of POPs of the codes of SpecSat
MaxWriteLen == 3 \* the longest of the other codes of SpecSat
MaxPushData == 8 \* the bytes after the small push of the codes of SpecPush

(***************************************************************************)
(* Opcodes (evmc/instructions.h) and revisions (evmc/evmc.h).              *)
(***************************************************************************)
OP_STOP == 0
OP_ADD == 1
OP_MUL == 2
OP_SUB == 3
OP_POP == 80
OP_SSTORE == 85
OP_JUMP == 86
OP_JUMPI == 87
OP_PC == 88
OP_GAS == 90
OP_JUMPDEST == 91
OP_PUSH1 == 96
OP_PUSH2 == 97
OP_PUSH8 == 103
OP_PUSH9 == 104
OP_PUSH32 == 127
OP_DUP1 == 128
OP_CREATE == 240
OP_CALL == 241
OP_CALLCODE == 242
OP_RETURN == 243
OP_DELEGATECALL == 244
OP_CREATE2 == 245
OP_STATICCALL == 250
OP_REVERT == 253
OP_INVALID == 254
OP_SELFDESTRUCT == 255

OPX_BEGINBLOCK == OP_JUMPDEST

EVMC_FRONTIER == 0
EVMC_TANGERINE_WHISTLE == 2
EVMC_BYZANTIUM == 4
EVMC_ISTANBUL == 7

ANY_SMALL_PUSH == OP_PUSH1..OP_PUSH8
ANY_LARGE_PUSH == OP_PUSH9..OP_PUSH32

NULL == -1

\* numeric_limits<int16_t>::max()
INT16_MAX == 32767

\* limits.hpp: the EVM stack limit used by the BEGINBLOCK prologue
StackLimit == 1024

(***************************************************************************)
(* get_op_table(rev): the handler and the base metrics of an opcode.       *)
(* Opcodes outside the listed ones are entered as undefined; the           *)
(* exploration only decodes listed opcodes.                                *)
(***************************************************************************)
OpEntry(f, g, r, c) == [fn |-> f, gas_cost |-> g, stack_req |-> r, stack_change |-> c]

op_tbl(rv, opcode) ==
    CASE opcode = OP_STOP -> OpEntry("op_stop", 0, 0, 0)
      [] opcode = OP_ADD -> OpEntry("op_add", 3, 2, -1)
      [] opcode = OP_MUL -> OpEntry("op_mul", 5, 2, -1)
      [] opcode = OP_SUB -> OpEntry("op_sub", 3, 2, -1)
      [] opcode = OP_POP -> OpEntry("op_pop", 2, 1, -1)
      [] opcode = OP_SSTORE -> OpEntry("op_sstore", 0, 2, -2)
      [] opcode = OP_JUMP -> OpEntry("op_jump", 8, 1, -1)
      [] opcode = OP_JUMPI -> OpEntry("op_jumpi", 10, 2, -2)
      [] opcode = OP_PC -> OpEntry("op_pc", 2, 0, 1)
      [] opcode = OP_GAS -> OpEntry("op_gas", 2, 0, 1)
      [] opcode = OP_JUMPDEST -> OpEntry("opx_beginblock", 1, 0, 0)
      [] opcode \in ANY_SMALL_PUSH -> OpEntry("op_push_small", 3, 0, 1)
      [] opcode \in ANY_LARGE_PUSH -> OpEntry("op_push_full", 3, 0, 1)
      [] opcode = OP_DUP1 -> OpEntry("op_dup1", 3, 1, 1)
      [] opcode = OP_RETURN -> OpEntry("op_return", 0, 2, -2)
      [] opcode = OP_REVERT /\ rv >= EVMC_BYZANTIUM -> OpEntry("op_revert", 0, 2, -2)
      [] opcode = OP_INVALID -> OpEntry("op_invalid", 0, 0, 0)
      [] opcode = OP_SELFDESTRUCT ->
            OpEntry("op_selfdestruct", IF rv >= EVMC_TANGERINE_WHISTLE THEN 5000 ELSE 0, 1, -1)
      [] OTHER -> OpEntry("op_undefined", 0, 0, 0)

(***************************************************************************)
(* instruction and instruction_argument.  The union is kept as a record    *)
(* with the member last written named in "tag"; a fresh instruction has    *)
(* arg{} (all zero).                                                       *)
(***************************************************************************)
block_info(g, r, m) == [gas_cost |-> g, stack_req |-> r, stack_max_growth |-> m]

\* a uint64_t as its 8 bytes, the least significant first: the value is the
\* sum of u[j] * 256^(j - 1)
U64Zero == <<0, 0, 0, 0, 0, 0, 0, 0>>

ZeroArg ==
    [tag |-> "none", number |-> 0, small_push_value |-> U64Zero, block |-> block_info(0, 0, 0)]

\* instruction(f): fn{f}, arg{}.  "writes" is not a member of the struct: it
\* lists the members of arg written to this entry since its construction.
instruction(f) == [fn |-> f, arg |-> ZeroArg, writes |-> <<>>]

\* instr.arg.number = v and instr.arg.push_value = v (member names which)
WithNumber(ins, member, v) ==
    [ins EXCEPT !.arg = [ZeroArg EXCEPT !.tag = member, !.number = v],
                !.writes = Append(@, member)]

\* instr.arg.small_push_value = u
WithSmallPush(ins, u) ==
    [ins EXCEPT !.arg = [ZeroArg EXCEPT !.tag = "small_push_value", !.small_push_value = u],
                !.writes = Append(@, "small_push_value")]

\* instr.arg.block = b
WithBlock(ins, b) ==
    [ins EXCEPT !.arg = [ZeroArg EXCEPT !.tag = "block", !.block = b],
                !.writes = Append(@, "block")]

Max(a, b) == IF a >= b THEN a ELSE b
Min(a, b) == IF a <= b THEN a ELSE b

\* a | b on bytes
RECURSIVE ByteOr(_, _)
ByteOr(a, b) ==
    IF a = 0 THEN b
    ELSE IF b = 0 THEN a
    ELSE Max(a % 2, b % 2) + 2 * ByteOr(a \div 2, b \div 2)

\* value | (uint64_t{byte} << bit_pos) for bit_pos a multiple of 8 below 64:
\* the shifted byte covers exactly byte bit_pos / 8 of the value
U64OrShifted(value, byte, bit_pos) ==
    [value EXCEPT ![bit_pos \div 8 + 1] = ByteOr(@, byte)]

\* the number a uint64_t stands for (for values the model's integers hold)
RECURSIVE U64ToNat(_)
U64ToNat(u) == IF u = <<>> THEN 0 ELSE Head(u) + 256 * U64ToNat(Tail(u))

(***************************************************************************)
(* clamp<To>(x) and block_analysis.                                        *)
(***************************************************************************)
\* clamp as static_cast<To>(x) alone: above max the value wraps around
clamp_Wrap(max, x) == IF x <= max THEN x ELSE x - 2 * (max + 1)

clamp(max, x) == IF x <= max THEN x ELSE max

\* clamp<uint32_t>(x): the integers of the model end at 2^31 - 1, below
\* numeric_limits<uint32_t>::max(), so x <= max holds for every value the
\* model can hold and the clamp returns x
clamp_uint32(x) == x

block_analysis(index) ==
    [gas_cost |-> 0, stack_req |-> 0, stack_max_growth |-> 0, stack_change |-> 0,
     begin_block_index |-> index]

close(b) ==
    block_info(clamp_uint32(b.gas_cost),
               clamp(INT16_MAX, b.stack_req),
               clamp(INT16_MAX, b.stack_max_growth))

(***************************************************************************)
(* The pieces of one iteration of the scan loop of analyze.                *)
(***************************************************************************)
\* UpdateBlock taking the opcode's stack_req as it is, not relative to the
\* stack_change so far
UpdateBlock_AbsoluteReq(b, info) ==
    LET req == Max(b.stack_req, info.stack_req)
        chg == b.stack_change + info.stack_change
    IN [b EXCEPT !.stack_req = req,
                 !.stack_change = chg,
                 !.stack_max_growth = Max(b.stack_max_growth, chg),
                 !.gas_cost = b.gas_cost + info.gas_cost]

\* UpdateBlock with gas_cost = in place of gas_cost +=
UpdateBlock_GasAssigned(b, info) ==
    LET req == Max(b.stack_req, info.stack_req - b.stack_change)
        chg == b.stack_change + info.stack_change
    IN [b EXCEPT !.stack_req = req,
                 !.stack_change = chg,
                 !.stack_max_growth = Max(b.stack_max_growth, chg),
                 !.gas_cost = info.gas_cost]

\* UpdateBlock without line 69: no gas is added to the block
UpdateBlock_NoGas(b, info) ==
    LET req == Max(b.stack_req, info.stack_req - b.stack_change)
        chg == b.stack_change + info.stack_change
    IN [b EXCEPT !.stack_req = req,
                 !.stack_change = chg,
                 !.stack_max_growth = Max(b.stack_max_growth, chg)]

\* lines 65-69: the accumulator update
UpdateBlock(b, info) ==
    LET req == Max(b.stack_req, info.stack_req - b.stack_change)
        chg == b.stack_change + info.stack_change
    IN [b EXCEPT !.stack_req = req,
                 !.stack_change = chg,
                 !.stack_max_growth = Max(b.stack_max_growth, chg),
                 !.gas_cost = b.gas_cost + info.gas_cost]

\* is_terminator with the case OP_STOP missing
is_terminator_NoStop(opcode) ==
    opcode \in {OP_JUMP, OP_JUMPI, OP_RETURN, OP_REVERT, OP_SELFDESTRUCT}

\* is_terminator with the case OP_JUMPI missing
is_terminator_NoJumpi(opcode) ==
    opcode \in {OP_JUMP, OP_STOP, OP_RETURN, OP_REVERT, OP_SELFDESTRUCT}

\* lines 85-94: the terminator cases of the switch
is_terminator(opcode) ==
    opcode \in {OP_JUMP, OP_JUMPI, OP_STOP, OP_RETURN, OP_REVERT, OP_SELFDESTRUCT}

\* lines 98-107: the small push loop; pos is the offset after the opcode.
\* Returns the assembled value and the offset after the consumed bytes.
RECURSIVE SmallPushLoop(_, _, _, _, _)
SmallPushLoop(cd, pos, push_end, value, insert_bit_pos) ==
    IF pos < push_end
    THEN SmallPushLoop(cd, pos + 1, push_end,
                       U64OrShifted(value, cd[pos + 1], insert_bit_pos), insert_bit_pos - 8)
    ELSE [value |-> value, code_pos |-> pos]

\* SmallPush with the bytes that are there put in the low-order positions
SmallPush_LowAligned(cd, pos, opcode) ==
    LET push_size == (opcode - OP_PUSH1) + 1
        push_end == Min(pos + push_size, Len(cd))
    IN SmallPushLoop(cd, pos, push_end, U64Zero, (push_end - pos - 1) * 8)

\* lines 98-100 and the loop: push_size, push_end, value = 0, insert_bit_pos
SmallPush(cd, pos, opcode) ==
    LET push_size == (opcode - OP_PUSH1) + 1
        push_end == Min(pos + push_size, Len(cd))
    IN SmallPushLoop(cd, pos, push_end, U64Zero, (push_size - 1) * 8)

\* LargePushEnd without code_pos += push_size
LargePushEnd_NoSkip(cd, pos, opcode) == pos

\* LargePushEnd with code_pos left on the opcode just read
LargePushEnd_BackToOpcode(cd, pos, opcode) == pos - 1

\* lines 114-119: the large push; returns the offset after the immediate
LargePushEnd(cd, pos, opcode) ==
    LET push_size == (opcode - OP_PUSH1) + 1
        p == pos + push_size
    IN IF p > Len(cd) THEN Len(cd) ELSE p

\* RecordOffset with the distance to code_end in place of the offset
RecordOffset_FromEnd(offs, cd, pos) == Append(offs, Len(cd) - pos)

\* line 75: the recorded offset of the JUMPDEST just read (code_pos - code - 1)
RecordOffset(offs, cd, pos) == Append(offs, pos - 1)

\* lines 76-77: the recorded target, the index of the last entry of instrs
\* lines 76-77 recording instrs.size(), the entry after the BEGINBLOCK
RecordTarget_Next(tgts, ins) == Append(tgts, Len(ins))

RecordTarget(tgts, ins) == Append(tgts, Len(ins) - 1)

\* NextIsJumpdest without the look-ahead
NextIsJumpdest_NoLookAhead(cd, pos) == FALSE

\* line 140: the look-ahead for a following JUMPDEST
NextIsJumpdest(cd, pos) == pos # Len(cd) /\ cd[pos + 1] = OP_JUMPDEST

\* line 140 without is_terminator: a block ends only before a JUMPDEST
EndsBlock_OnlyBeforeJumpdest(cd, pos, opcode) == NextIsJumpdest(cd, pos)

\* line 140: the block ends after this instruction
EndsBlock(cd, pos, opcode) == is_terminator(opcode) \/ NextIsJumpdest(cd, pos)

GasSensitive ==
    {OP_GAS, OP_CALL, OP_CALLCODE, OP_DELEGATECALL, OP_STATICCALL, OP_CREATE, OP_CREATE2,
     OP_SSTORE}

\* line 131 with the block's cost before this instruction
GasNumber_BeforeThis(b, info) == b.gas_cost - info.gas_cost

\* line 131: instr.arg.number = block.gas_cost, b the block after line 69
GasNumber(b, info) == b.gas_cost

(***************************************************************************)
(* One iteration of the while loop of analyze (lines 60-149) on the        *)
(* analysis state a = [code_pos, instrs, jumpdest_offsets,                 *)
(* jumpdest_targets, block].                                               *)
(***************************************************************************)
LoopBody(rv, cd, a) ==
    LET opcode == cd[a.code_pos + 1]
        pos1 == a.code_pos + 1                       \* *code_pos++
        opcode_info == op_tbl(rv, opcode)
        blk == UpdateBlock(a.block, opcode_info)
        isJd == opcode = OP_JUMPDEST
        offs == IF isJd THEN RecordOffset(a.jumpdest_offsets, cd, pos1)
                        ELSE a.jumpdest_offsets
        tgts == IF isJd THEN RecordTarget(a.jumpdest_targets, a.instrs)
                        ELSE a.jumpdest_targets
        ins1 == IF isJd THEN a.instrs ELSE Append(a.instrs, instruction(opcode_info.fn))
        back == Len(ins1)                            \* instrs.back()
        sp == SmallPush(cd, pos1, opcode)
        \* the switch: the argument written to instrs.back() and the new code_pos
        ins2 == CASE opcode \in ANY_SMALL_PUSH ->
                       [ins1 EXCEPT ![back] = WithSmallPush(@, sp.value)]
                  [] opcode \in ANY_LARGE_PUSH ->
                       [ins1 EXCEPT ![back] = WithNumber(@, "push_value", pos1)]
                  [] opcode \in GasSensitive ->
                       [ins1 EXCEPT ![back] =
                           WithNumber(@, "number", GasNumber(blk, opcode_info))]
                  [] opcode = OP_PC ->
                       [ins1 EXCEPT ![back] = WithNumber(@, "number", pos1 - 1)]
                  [] OTHER -> ins1
        pos2 == CASE opcode \in ANY_SMALL_PUSH -> sp.code_pos
                  [] opcode \in ANY_LARGE_PUSH -> LargePushEnd(cd, pos1, opcode)
                  [] OTHER -> pos1
        ends == EndsBlock(cd, pos2, opcode)
        \* lines 143-147: save the current block, create the new one
        ins3 == IF ends
                THEN Append([ins2 EXCEPT ![blk.begin_block_index + 1] = WithBlock(@, close(blk))],
                            instruction(op_tbl(rv, OPX_BEGINBLOCK).fn))
                ELSE ins2
        blk3 == IF ends THEN block_analysis(Len(ins3) - 1) ELSE blk
    IN [code_pos |-> pos2, instrs |-> ins3, jumpdest_offsets |-> offs,
        jumpdest_targets |-> tgts, block |-> blk3]

\* The offsets of the code bytes that the iteration starting at pos reads:
\* the opcode (line 62), the immediate bytes of a small push (line 105) and,
\* when the opcode is no terminator and code_pos != code_end, the byte of
\* the look-ahead (line 140).  A large push reads none (line 115).
ReadOffsets(cd, pos) ==
    LET opcode == cd[pos + 1]
        pos1 == pos + 1
        pos2 == CASE opcode \in ANY_SMALL_PUSH -> SmallPush(cd, pos1, opcode).code_pos
                  [] opcode \in ANY_LARGE_PUSH -> LargePushEnd(cd, pos1, opcode)
                  [] OTHER -> pos1
        immediate == IF opcode \in ANY_SMALL_PUSH THEN pos1..(pos2 - 1) ELSE {}
        lookahead == IF ~is_terminator(opcode) /\ pos2 # Len(cd) THEN {pos2} ELSE {}
    IN {pos} \cup immediate \cup lookahead

\* lines 47-58: the state before the loop
AnalysisStart(rv) ==
    [code_pos |-> 0,
     instrs |-> <<instruction(op_tbl(rv, OPX_BEGINBLOCK).fn)>>,
     jumpdest_offsets |-> <<>>,
     jumpdest_targets |-> <<>>,
     block |-> block_analysis(0)]

\* AnalysisEnd without the trailing STOP
AnalysisEnd_NoStop(rv, a) ==
    [a EXCEPT !.instrs =
        [a.instrs EXCEPT ![a.block.begin_block_index + 1] = WithBlock(@, close(a.block))]]

\* lines 151-160: after the loop
AnalysisEnd(rv, a) ==
    [a EXCEPT !.instrs =
        Append([a.instrs EXCEPT ![a.block.begin_block_index + 1] = WithBlock(@, close(a.block))],
               instruction(op_tbl(rv, OP_STOP).fn))]

RECURSIVE AnalysisLoop(_, _, _)
AnalysisLoop(rv, cd, a) ==
    IF a.code_pos # Len(cd) THEN AnalysisLoop(rv, cd, LoopBody(rv, cd, a)) ELSE a

\* analyze(rev, code, code_size) as a function of its inputs
analyze(rv, cd) == AnalysisEnd(rv, AnalysisLoop(rv, cd, AnalysisStart(rv)))

(***************************************************************************)
(* The stack checks of the BEGINBLOCK prologue for a block header bi and a *)
(* stack of height h.                                                      *)
(***************************************************************************)
BlockStackGuard(bi, h) == h >= bi.stack_req /\ h + bi.stack_max_growth <= StackLimit

(***************************************************************************)
(* The inputs.                                                             *)
(***************************************************************************)
Revs == {EVMC_FRONTIER, EVMC_ISTANBUL}

\* bytes the enumerated codes are built from: as opcodes STOP, ADD, JUMP,
\* JUMPDEST, PUSH1, PUSH2, PUSH9 and REVERT; any of them can be push data
Alphabet == {OP_STOP, OP_ADD, OP_JUMP, OP_JUMPDEST, OP_PUSH1, OP_PUSH2, OP_PUSH9, OP_REVERT}

RECURSIVE SeqsUpTo(_, _)
SeqsUpTo(S, n) ==
    IF n = 0 THEN {<<>>}
    ELSE LET shorter == SeqsUpTo(S, n - 1)
         IN shorter \cup {Append(s, x) : s \in {t \in shorter : Len(t) = n - 1}, x \in S}

Codes == SeqsUpTo(Alphabet, MaxLen)

NoResult == [status_code |-> "NONE", gas_left |-> 0]

\* The history of a run:
\*   iterations     turns of the scan loop of analyze taken so far
\*   entered_cost   sum of block.gas_cost of the BEGINBLOCKs whose prologue passed
\*   executed_cost  sum of the base gas costs of the opcodes executed
\*   cur_block      index of the last BEGINBLOCK whose prologue passed, NULL if none
NoHistory == [iterations |-> 0, entered_cost |-> 0, executed_cost |-> 0, cur_block |-> NULL]

ExecIdle ==
    /\ msg_gas = 0
    /\ instr = NULL
    /\ gas_left = 0
    /\ stack = <<>>
    /\ status = "EVMC_SUCCESS"
    /\ current_block_cost = 0
    /\ result = NoResult
    /\ hist = NoHistory

SetAnalysis(a) ==
    /\ code_pos' = a.code_pos
    /\ instrs' = a.instrs
    /\ jumpdest_offsets' = a.jumpdest_offsets
    /\ jumpdest_targets' = a.jumpdest_targets
    /\ block' = a.block

CurAnalysis ==
    [code_pos |-> code_pos, instrs |-> instrs, jumpdest_offsets |-> jumpdest_offsets,
     jumpdest_targets |-> jumpdest_targets, block |-> block]

(***************************************************************************)
(* Spec: analyze, one loop iteration per step.                             *)
(***************************************************************************)
Init ==
    /\ rev \in Revs
    /\ code \in Codes
    /\ phase = "analyze"
    /\ code_pos = 0
    /\ instrs = AnalysisStart(rev).instrs
    /\ jumpdest_offsets = <<>>
    /\ jumpdest_targets = <<>>
    /\ block = block_analysis(0)
    /\ ExecIdle

\* one iteration of while (code_pos != code_end)
AnalyzeStep ==
    /\ phase = "analyze"
    /\ code_pos # Len(code)
    /\ SetAnalysis(LoopBody(rev, code, CurAnalysis))
    /\ hist' = [hist EXCEPT !.iterations = @ + 1]
    /\ UNCHANGED <<rev, code, phase>>
    /\ UNCHANGED <<msg_gas, execVars>>

\* the loop exit: close the last block, append the STOP, return
AnalyzeReturn ==
    /\ phase = "analyze"
    /\ code_pos = Len(code)
    /\ SetAnalysis(AnalysisEnd(rev, CurAnalysis))
    /\ phase' = "analyzed"
    /\ UNCHANGED <<rev, code, hist>>
    /\ UNCHANGED <<msg_gas, execVars>>

Next == AnalyzeStep \/ AnalyzeReturn

Spec == Init /\ [][Next]_vars

(***************************************************************************)
(* SpecStack: the same analysis over codes of the opcodes that move the    *)
(* stack (ADD and JUMP pop, PUSH1 and DUP1 push), with JUMPDEST and JUMP   *)
(* as block boundaries.                                                    *)
(***************************************************************************)
StackAlphabet == {OP_ADD, OP_JUMP, OP_JUMPDEST, OP_PUSH1, OP_DUP1}

InitStack ==
    /\ rev = EVMC_ISTANBUL
    /\ code \in SeqsUpTo(StackAlphabet, MaxStackLen)
    /\ phase = "analyze"
    /\ code_pos = 0
    /\ instrs = AnalysisStart(rev).instrs
    /\ jumpdest_offsets = <<>>
    /\ jumpdest_targets = <<>>
    /\ block = block_analysis(0)
    /\ ExecIdle

SpecStack == InitStack /\ [][Next]_vars

(***************************************************************************)
(* SpecScan: the same analysis over codes of small and large pushes, whole *)
(* and truncated, terminators and JUMPDESTs.  analyze runs without         *)
(* interruption: an iteration that can be made is made.                    *)
(***************************************************************************)
ScanAlphabet == {OP_ADD, OP_JUMP, OP_JUMPDEST, OP_PUSH1, OP_PUSH2, OP_PUSH9}

InitScan ==
    /\ rev = EVMC_ISTANBUL
    /\ code \in SeqsUpTo(ScanAlphabet, MaxScanLen)
    /\ phase = "analyze"
    /\ code_pos = 0
    /\ instrs = AnalysisStart(rev).instrs
    /\ jumpdest_offsets = <<>>
    /\ jumpdest_targets = <<>>
    /\ block = block_analysis(0)
    /\ ExecIdle

SpecScan == InitScan /\ [][Next]_vars /\ WF_vars(Next)

(***************************************************************************)
(* SpecSat: the same analysis over (a) the codes up to MaxWriteLen of the  *)
(* opcodes whose case of the switch writes an argument (PUSH1, PUSH9, GAS, *)
(* PC), JUMPDEST and JUMP, and (b) the codes that start with a run of n    *)
(* POPs, n around the 16-bit maximum, followed by up to MaxSatSuffix of    *)
(* POP, JUMPDEST and PUSH1.  For (b) the analysis starts after the n       *)
(* iterations that scan the run: AfterPops(rv, n) is the state of the scan *)
(* then, unless a JUMPDEST follows the run (the look-ahead of the last POP *)
(* then has closed the block; those codes start one POP earlier).  n = 0   *)
(* is the start of the analysis, and each further POP takes                *)
(* AfterPops(rv, n) to AfterPops(rv, n + 1).                               *)
(***************************************************************************)
WriteAlphabet == {OP_JUMP, OP_PC, OP_GAS, OP_JUMPDEST, OP_PUSH1, OP_PUSH9}
SatAlphabet == {OP_POP, OP_JUMPDEST, OP_PUSH1}
SatPrefixes == {0} \cup ((INT16_MAX - 1)..(INT16_MAX + 1))

Pops(n) == [i \in 1..n |-> OP_POP]

\* the analysis state after the iterations for n POPs at the start of a code
AfterPops(rv, n) ==
    LET info == op_tbl(rv, OP_POP)
    IN [code_pos |-> n,
        instrs |-> AnalysisStart(rv).instrs \o [i \in 1..n |-> instruction(info.fn)],
        jumpdest_offsets |-> <<>>,
        jumpdest_targets |-> <<>>,
        block |-> [gas_cost |-> n * info.gas_cost,
                   stack_req |-> IF n = 0 THEN 0
                                 ELSE info.stack_req - (n - 1) * info.stack_change,
                   stack_max_growth |-> 0,
                   stack_change |-> n * info.stack_change,
                   begin_block_index |-> 0]]

InitSat ==
    /\ rev = EVMC_ISTANBUL
    /\ \E n \in SatPrefixes :
          /\ \/ code \in {Pops(n) \o sfx :
                          sfx \in {x \in SeqsUpTo(SatAlphabet, MaxSatSuffix) :
                                      n = 0 \/ x = <<>> \/ x[1] # OP_JUMPDEST}}
             \/ n = 0 /\ code \in SeqsUpTo(WriteAlphabet, MaxWriteLen)
          /\ code_pos = AfterPops(rev, n).code_pos
          /\ instrs = AfterPops(rev, n).instrs
          /\ jumpdest_offsets = AfterPops(rev, n).jumpdest_offsets
          /\ jumpdest_targets = AfterPops(rev, n).jumpdest_targets
          /\ block = AfterPops(rev, n).block
          /\ msg_gas = 0
          /\ instr = NULL
          /\ gas_left = 0
          /\ stack = <<>>
          /\ status = "EVMC_SUCCESS"
          /\ current_block_cost = 0
          /\ result = NoResult
          /\ hist = [NoHistory EXCEPT !.iterations = n]
    /\ phase = "analyze"

SpecSat == InitSat /\ [][Next]_vars

(***************************************************************************)
(* SpecPush: the same analysis over the codes that start with a small      *)
(* push, PUSH1 to PUSH8, followed by 0 to MaxPushData bytes: with fewer    *)
(* bytes than the push takes, exactly as many, and more.                   *)
(***************************************************************************)
PushBytes == {OP_ADD, OP_SELFDESTRUCT}

InitPush ==
    /\ rev \in Revs
    /\ \E opcode \in ANY_SMALL_PUSH, data \in SeqsUpTo(PushBytes, MaxPushData) :
           code = <<opcode>> \o data
    /\ phase = "analyze"
    /\ code_pos = 0
    /\ instrs = AnalysisStart(rev).instrs
    /\ jumpdest_offsets = <<>>
    /\ jumpdest_targets = <<>>
    /\ block = block_analysis(0)
    /\ ExecIdle

SpecPush == InitPush /\ [][Next]_vars

(***************************************************************************)
(* find_jumpdest (analysis.hpp): std::lower_bound over jumpdest_offsets.   *)
(***************************************************************************)
\* std::lower_bound on s[first, first + count): the first position whose
\* element is not less than v (0-based)
RECURSIVE lower_bound(_, _, _, _)
lower_bound(s, first, count, v) ==
    IF count <= 0 THEN first
    ELSE LET step == count \div 2
             it == first + step
         IN IF s[it + 1] < v
            THEN lower_bound(s, it + 1, count - (step + 1), v)
            ELSE lower_bound(s, first, step, v)

\* find_jumpdest returning the position in jumpdest_offsets, not the target
find_jumpdest_Position(offsets, targets, offset) ==
    LET end == Len(offsets)
        it == lower_bound(offsets, 0, end, offset)
    IN IF it # end /\ offsets[it + 1] = offset THEN it ELSE -1

\* find_jumpdest without *it == offset
find_jumpdest_NoEqualCheck(offsets, targets, offset) ==
    LET end == Len(offsets)
        it == lower_bound(offsets, 0, end, offset)
    IN IF it # end THEN targets[it + 1] ELSE -1

find_jumpdest(offsets, targets, offset) ==
    LET end == Len(offsets)
        it == lower_bound(offsets, 0, end, offset)
    IN IF it # end /\ offsets[it + 1] = offset THEN targets[it + 1] ELSE -1

(***************************************************************************)
(* The instruction handlers: fn(instr, state) returns the index of the     *)
(* next instruction (NULL to end) and the changed state.  st is the record *)
(* [gas_left, stack, status, current_block_cost]; i is the index of instr. *)
(* Stack items are kept as naturals; the explored codes build none that    *)
(* reaches 2^256.                                                          *)
(***************************************************************************)
INT_MAX == 2147483647

\* exit without status = status_code
exit_StatusKept(st, status_code) == [next |-> NULL, st |-> st]

\* execution_state::exit(status_code)
exit(st, status_code) == [next |-> NULL, st |-> [st EXCEPT !.status = status_code]]

Continue(i, st) == [next |-> i + 1, st |-> st]

Top(stk, k) == stk[Len(stk) - k]             \* stack[k], 0 is the top
Pop(stk, k) == SubSeq(stk, 1, Len(stk) - k)  \* k times pop()

opx_beginblock(i, ins, st) ==
    LET b == ins.arg.block
    IN IF st.gas_left < b.gas_cost THEN exit(st, "EVMC_OUT_OF_GAS")
       ELSE IF Len(st.stack) < b.stack_req THEN exit(st, "EVMC_STACK_UNDERFLOW")
       ELSE IF Len(st.stack) + b.stack_max_growth > StackLimit
            THEN exit(st, "EVMC_STACK_OVERFLOW")
       ELSE Continue(i, [st EXCEPT !.gas_left = @ - b.gas_cost,
                                   !.current_block_cost = b.gas_cost])

op_stop(i, ins, st) == exit(st, "EVMC_SUCCESS")

op_add(i, ins, st) ==
    Continue(i, [st EXCEPT !.stack = Append(Pop(@, 2), Top(@, 0) + Top(@, 1))])

op_mul(i, ins, st) ==
    Continue(i, [st EXCEPT !.stack = Append(Pop(@, 2), Top(@, 0) * Top(@, 1))])

op_push_small(i, ins, st) ==
    Continue(i, [st EXCEPT !.stack = Append(@, U64ToNat(ins.arg.small_push_value))])

op_jump(i, ins, st, offsets, targets) ==
    LET dst == Top(st.stack, 0)
        st1 == [st EXCEPT !.stack = Pop(@, 1)]
        pc == IF INT_MAX < dst THEN -1 ELSE find_jumpdest(offsets, targets, dst)
    IN IF pc < 0 THEN exit(st1, "EVMC_BAD_JUMP_DESTINATION")
       ELSE [next |-> pc, st |-> st1]

\* the condition is stack[1]; a taken JUMPI is a JUMP followed by the pop of
\* the condition
op_jumpi(i, ins, st, offsets, targets) ==
    IF Top(st.stack, 1) # 0
    THEN LET r == op_jump(i, ins, st, offsets, targets)
         IN [r EXCEPT !.st.stack = Pop(@, 1)]
    ELSE Continue(i, [st EXCEPT !.stack = Pop(@, 2)])

\* the gas left as the opcode sees it
op_gas(i, ins, st) ==
    Continue(i, [st EXCEPT !.stack =
        Append(@, st.gas_left + (st.current_block_cost - ins.arg.number))])

op_revert(i, ins, st) == exit([st EXCEPT !.stack = Pop(@, 2)], "EVMC_REVERT")

op_undefined(i, ins, st) == exit(st, "EVMC_UNDEFINED_INSTRUCTION")

\* instr->fn(instr, *state)
CallHandler(i, ins, st, offsets, targets) ==
    CASE ins.fn = "opx_beginblock" -> opx_beginblock(i, ins, st)
      [] ins.fn = "op_stop" -> op_stop(i, ins, st)
      [] ins.fn = "op_add" -> op_add(i, ins, st)
      [] ins.fn = "op_mul" -> op_mul(i, ins, st)
      [] ins.fn = "op_push_small" -> op_push_small(i, ins, st)
      [] ins.fn = "op_jump" -> op_jump(i, ins, st, offsets, targets)
      [] ins.fn = "op_jumpi" -> op_jumpi(i, ins, st, offsets, targets)
      [] ins.fn = "op_gas" -> op_gas(i, ins, st)
      [] ins.fn = "op_revert" -> op_revert(i, ins, st)
      [] ins.fn = "op_undefined" -> op_undefined(i, ins, st)

\* ResultGasLeft keeping the gas on EVMC_SUCCESS only
ResultGasLeft_SuccessOnly(st_status, st_gas_left) ==
    IF st_status = "EVMC_SUCCESS" THEN st_gas_left ELSE 0

\* execution.cpp lines 23-24: the gas_left of the result
ResultGasLeft(st_status, st_gas_left) ==
    IF st_status = "EVMC_SUCCESS" \/ st_status = "EVMC_REVERT" THEN st_gas_left ELSE 0

(***************************************************************************)
(* Reference decoding of the code, used to state the properties: the       *)
(* offsets that hold opcodes, and the partition of the opcodes into basic  *)
(* blocks (a block ends after a terminator and before a JUMPDEST).         *)
(***************************************************************************)
AnalysisDone == phase # "analyze"

ImmLen(opcode) == IF opcode \in OP_PUSH1..OP_PUSH32 THEN opcode - OP_PUSH1 + 1 ELSE 0

RefTerminators == {OP_STOP, OP_JUMP, OP_JUMPI, OP_RETURN, OP_REVERT, OP_SELFDESTRUCT}

\* offsets of the opcodes decoded from offset p on
RECURSIVE OpcodeOffsets(_, _)
OpcodeOffsets(cd, p) ==
    IF p >= Len(cd) THEN <<>>
    ELSE <<p>> \o OpcodeOffsets(cd, p + 1 + ImmLen(cd[p + 1]))

IsJumpdestAt(cd, p) == cd[p + 1] = OP_JUMPDEST

\* the basic blocks of the opcodes at the offsets ps: a sequence of
\* sequences of offsets; cur is the block being collected
RECURSIVE RefBlocksFrom(_, _, _)
RefBlocksFrom(cd, ps, cur) ==
    IF ps = <<>> THEN <<cur>>
    ELSE LET p == Head(ps)
             cur1 == Append(cur, p)
             rest == Tail(ps)
             boundary == \/ cd[p + 1] \in RefTerminators
                         \/ rest # <<>> /\ IsJumpdestAt(cd, Head(rest))
         IN IF boundary THEN <<cur1>> \o RefBlocksFrom(cd, rest, <<>>)
            ELSE RefBlocksFrom(cd, rest, cur1)

RefBlocks(cd) == RefBlocksFrom(cd, OpcodeOffsets(cd, 0), <<>>)

Indices(s) == [i \in 1..Len(s) |-> i]

\* positions (1-based) of the BEGINBLOCK entries of ins, ascending
BeginBlocks(ins) == SelectSeq(Indices(ins), LAMBDA i : ins[i].fn = "opx_beginblock")

Fns(ins) == [i \in 1..Len(ins) |-> ins[i].fn]

RECURSIVE SumGas(_, _, _)
SumGas(rv, cd, ps) ==
    IF ps = <<>> THEN 0
    ELSE op_tbl(rv, cd[Head(ps) + 1]).gas_cost + SumGas(rv, cd, Tail(ps))

\* The opcode whose handler the entry at index i of ins is: the entries
\* other than BEGINBLOCKs stand, in order, for the opcodes other than
\* JUMPDEST; the last entry is the trailing STOP and stands for none (NULL).
NonJumpdestOffsets(cd) ==
    SelectSeq(OpcodeOffsets(cd, 0), LAMBDA p : ~IsJumpdestAt(cd, p))

OffsetOfInstr(cd, ins, i) ==
    LET k == Cardinality({j \in 1..(i + 1) : ins[j].fn # "opx_beginblock"})
        offs == NonJumpdestOffsets(cd)
    IN IF k <= Len(offs) THEN offs[k] ELSE NULL

InSeq(s, x) == \E j \in 1..Len(s) : s[j] = x

\* The base gas cost of the opcode that the entry at index i executes: a
\* BEGINBLOCK recorded in targets executes its JUMPDEST, another none.
ExecutedCost(rv, cd, ins, targets, i) ==
    IF ins[i + 1].fn = "opx_beginblock"
    THEN IF InSeq(targets, i) THEN op_tbl(rv, OP_JUMPDEST).gas_cost ELSE 0
    ELSE LET p == OffsetOfInstr(cd, ins, i)
         IN IF p = NULL THEN 0 ELSE op_tbl(rv, cd[p + 1]).gas_cost

(***************************************************************************)
(* SpecExec: execute.  The analysis is one step (the call of analyze),     *)
(* each call of a handler by the dispatch loop is one step, and the        *)
(* assembly of the result is the last step.                                *)
(***************************************************************************)
ExecAlphabet ==
    {OP_STOP, OP_ADD, OP_MUL, OP_JUMP, OP_GAS, OP_JUMPDEST, OP_PUSH1, OP_REVERT}

\* the codes of the scenarios: PUSH1 4, JUMP, JUMPDEST, STOP; the same with
\* PUSH1 3; PUSH1 0, JUMP; PUSH1 5, PUSH1 3, ADD
Scenario_Jump4 == <<OP_PUSH1, 4, OP_JUMP, OP_JUMPDEST, OP_STOP>>
Scenario_Jump3 == <<OP_PUSH1, 3, OP_JUMP, OP_JUMPDEST, OP_STOP>>
Scenario_BadJump == <<OP_PUSH1, 0, OP_JUMP>>
Scenario_Add == <<OP_PUSH1, 5, OP_PUSH1, 3, OP_ADD>>
\* PUSH1 0, PUSH1 0, REVERT: an execution that ends with REVERT
Scenario_Revert == <<OP_PUSH1, 0, OP_PUSH1, 0, OP_REVERT>>

\* PUSH1 c, PUSH1 5, JUMPI, JUMPDEST, STOP with the condition c = 1 (taken)
\* and c = 0 (not taken); PUSH1 1, PUSH1 6, JUMPI, JUMPDEST, STOP jumps to
\* the STOP
Scenario_JumpiTaken == <<OP_PUSH1, 1, OP_PUSH1, 5, OP_JUMPI, OP_JUMPDEST, OP_STOP>>
Scenario_JumpiNotTaken == <<OP_PUSH1, 0, OP_PUSH1, 5, OP_JUMPI, OP_JUMPDEST, OP_STOP>>
Scenario_JumpiBad == <<OP_PUSH1, 1, OP_PUSH1, 6, OP_JUMPI, OP_JUMPDEST, OP_STOP>>
\* JUMPDEST, PUSH1 0, PUSH1 0, JUMP: a loop that leaves one more item on the
\* stack each turn
Scenario_Overflow == <<OP_JUMPDEST, OP_PUSH1, 0, OP_PUSH1, 0, OP_JUMP>>

\* PUSH1 0, PUSH1 1, JUMPDEST, PUSH1 4, JUMPI, STOP: the block of the JUMPDEST
\* at offset 4 is entered twice, the JUMPI is taken once with the condition 1
\* and then falls through with the condition 0
Scenario_Loop == <<OP_PUSH1, 0, OP_PUSH1, 1, OP_JUMPDEST, OP_PUSH1, 4, OP_JUMPI, OP_STOP>>

\* PUSH1 0x5B, PUSH1 1, JUMP: a jump to the 0x5B byte that is PUSH data
Scenario_JumpIntoPushData == <<OP_PUSH1, OP_JUMPDEST, OP_PUSH1, 1, OP_JUMP>>

\* PUSH1 0, GAS, STOP, ADD, SSTORE: the SSTORE is analysed, never executed
Scenario_GasSstore == <<OP_PUSH1, 0, OP_GAS, OP_STOP, OP_ADD, OP_SSTORE>>

Scenarios ==
    {Scenario_GasSstore, Scenario_Jump4, Scenario_Jump3, Scenario_BadJump, Scenario_Add, Scenario_Revert,
     Scenario_JumpiTaken, Scenario_JumpiNotTaken, Scenario_JumpiBad, Scenario_Loop,
     Scenario_JumpIntoPushData}

InitExec ==
    /\ rev \in Revs
    /\ \/ code \in SeqsUpTo(ExecAlphabet, MaxExecLen) /\ msg_gas \in {0, MaxGas}
       \/ code \in Scenarios /\ msg_gas = ScenarioGas
       \/ code = Scenario_Overflow /\ msg_gas = OverflowGas
    /\ phase = "execute"
    /\ code_pos = 0
    /\ instrs = <<>>
    /\ jumpdest_offsets = <<>>
    /\ jumpdest_targets = <<>>
    /\ block = block_analysis(0)
    /\ instr = NULL
    /\ gas_left = 0
    /\ stack = <<>>
    /\ status = "EVMC_SUCCESS"
    /\ current_block_cost = 0
    /\ result = NoResult
    /\ hist = NoHistory

\* lines 14-19: analyze, construct the state, instr = &instrs[0]
ExecuteStart ==
    /\ phase = "execute"
    /\ SetAnalysis(analyze(rev, code))
    /\ gas_left' = msg_gas
    /\ instr' = 0
    /\ phase' = "dispatch"
    /\ UNCHANGED <<rev, code, msg_gas, stack, status, current_block_cost, result, hist>>

CurState ==
    [gas_left |-> gas_left, stack |-> stack, status |-> status,
     current_block_cost |-> current_block_cost]

\* lines 20-21: one turn of while (instr != nullptr) instr = instr->fn(instr, *state)
Dispatch ==
    /\ phase = "dispatch"
    /\ instr # NULL
    /\ LET r == CallHandler(instr, instrs[instr + 1], CurState,
                            jumpdest_offsets, jumpdest_targets)
       IN /\ instr' = r.next
          /\ gas_left' = r.st.gas_left
          /\ stack' = r.st.stack
          /\ status' = r.st.status
          /\ current_block_cost' = r.st.current_block_cost
          /\ LET isBB == instrs[instr + 1].fn = "opx_beginblock"
                 passed == isBB /\ r.next # NULL
                 ran == ~isBB \/ passed
             IN hist' = [hist EXCEPT
                    !.entered_cost =
                        IF passed THEN @ + instrs[instr + 1].arg.block.gas_cost ELSE @,
                    !.executed_cost =
                        IF ran THEN @ + ExecutedCost(rev, code, instrs, jumpdest_targets, instr)
                               ELSE @,
                    !.cur_block = IF passed THEN instr ELSE @]
    /\ UNCHANGED <<rev, code, phase, msg_gas, analysisVars, result>>

\* lines 23-31: the loop has ended, make the result
ExecuteReturn ==
    /\ phase = "dispatch"
    /\ instr = NULL
    /\ result' = [status_code |-> status, gas_left |-> ResultGasLeft(status, gas_left)]
    /\ phase' = "done"
    /\ UNCHANGED <<rev, code, msg_gas, analysisVars, instr, gas_left, stack, status,
                   current_block_cost, hist>>

NextExec == ExecuteStart \/ Dispatch \/ ExecuteReturn

SpecExec == InitExec /\ [][NextExec]_vars

(***************************************************************************)
(* SpecLoop: execute over the codes of STOP, JUMP, JUMPDEST and PUSH1,     *)
(* the loop JUMPDEST, PUSH1 0, JUMP among them, and two loops closed by a  *)
(* JUMPI.  The dispatch loop and the return of execute run without         *)
(* interruption: a handler that can be called is called.                   *)
(***************************************************************************)
LoopAlphabet == {OP_STOP, OP_JUMP, OP_JUMPDEST, OP_PUSH1}

\* JUMPDEST, PUSH1 1, PUSH1 0, JUMPI: the JUMPI is taken every time
Scenario_JumpiForever == <<OP_JUMPDEST, OP_PUSH1, 1, OP_PUSH1, 0, OP_JUMPI>>

InitLoop ==
    /\ rev \in Revs
    /\ \/ code \in SeqsUpTo(LoopAlphabet, MaxLoopLen) /\ msg_gas \in {0, LoopGas}
       \/ code \in {Scenario_Loop, Scenario_JumpiForever} /\ msg_gas = LoopGas
    /\ phase = "execute"
    /\ code_pos = 0
    /\ instrs = <<>>
    /\ jumpdest_offsets = <<>>
    /\ jumpdest_targets = <<>>
    /\ block = block_analysis(0)
    /\ instr = NULL
    /\ gas_left = 0
    /\ stack = <<>>
    /\ status = "EVMC_SUCCESS"
    /\ current_block_cost = 0
    /\ result = NoResult
    /\ hist = NoHistory

SpecLoop ==
    InitLoop /\ [][NextExec]_vars /\ WF_vars(Dispatch) /\ WF_vars(ExecuteReturn)

(***************************************************************************)
(* C1: for every code and revision analyze returns at most code_size + 2   *)
(* entries in instrs (code_size + 1 before the trailing STOP).             *)
(***************************************************************************)
C1_InstrsBound == AnalysisDone => Len(instrs) <= Len(code) + 2

C4_FirstBeginblockLastStop ==
    AnalysisDone =>
        /\ instrs[1].fn = "opx_beginblock"
        /\ instrs[Len(instrs)].fn = "op_stop"
        /\ Len(instrs) >= 2

\* the code ends in a terminator other than STOP, and the analysis returned
C4_Witness ==
    /\ phase = "analyzed"
    /\ Len(code) = MaxLen
    /\ code[Len(code)] = OP_JUMP
    /\ instrs[Len(instrs) - 1].fn = "opx_beginblock"

(***************************************************************************)
(* C5: every value of jumpdest_targets is an index into instrs of an entry *)
(* with the BEGINBLOCK handler, and the entries after that BEGINBLOCK are  *)
(* the handlers of the opcodes that follow the JUMPDEST in the code, up to *)
(* the end of its block; the next entry is the BEGINBLOCK of the next      *)
(* block, or the trailing STOP when the block runs to the end of the code. *)
(***************************************************************************)
\* offsets of the opcodes of the block that the JUMPDEST at offset p opens,
\* the JUMPDEST itself left out
RECURSIVE BlockOf(_, _)
BlockOf(blocks, p) ==
    IF Head(blocks) # <<>> /\ Head(Head(blocks)) = p THEN Tail(Head(blocks))
    ELSE BlockOf(Tail(blocks), p)

C5_TargetsAreBlockStarts ==
    AnalysisDone =>
        \A i \in 1..Len(jumpdest_targets) :
            LET t == jumpdest_targets[i]
                p == jumpdest_offsets[i]
                ops == BlockOf(RefBlocks(code), p)
                n == Len(ops)
                last == IF n = 0 THEN p ELSE ops[n]
                atEnd == last + 1 + ImmLen(code[last + 1]) >= Len(code)
                         /\ code[last + 1] \notin RefTerminators
            IN /\ t \in 0..(Len(instrs) - 1)
               /\ instrs[t + 1].fn = "opx_beginblock"
               /\ t + 2 + n <= Len(instrs)
               /\ \A k \in 1..n : instrs[t + 1 + k].fn = op_tbl(rev, code[ops[k] + 1]).fn
               /\ IF atEnd THEN t + 2 + n = Len(instrs)
                           ELSE instrs[t + 2 + n].fn = "opx_beginblock"

\* a JUMPDEST after a PUSH immediate that is itself a 0x5B byte, and a
\* JUMPDEST directly after a JUMPDEST
C5_Witness ==
    /\ phase = "analyzed"
    /\ code = <<OP_PUSH1, OP_JUMPDEST, OP_JUMPDEST, OP_JUMPDEST>>
    /\ jumpdest_targets = <<2, 3>>

(***************************************************************************)
(* C6: jumpdest_offsets is exactly the ascending list of the offsets that  *)
(* hold a JUMPDEST opcode; a 0x5B byte inside the immediate of a PUSH      *)
(* (also of a PUSH cut by the end of the code) is not recorded.            *)
(***************************************************************************)
C6_OffsetsAreJumpdestOpcodes ==
    AnalysisDone =>
        jumpdest_offsets =
            SelectSeq(OpcodeOffsets(code, 0), LAMBDA p : IsJumpdestAt(code, p))

\* a 0x5B inside the data of a large PUSH, cut by the end of the code
C6_Witness ==
    /\ phase = "analyzed"
    /\ code = <<OP_JUMPDEST, OP_PUSH9, OP_JUMPDEST>>
    /\ jumpdest_offsets = <<0>>

(***************************************************************************)
(* C7: at every point of the analysis jumpdest_offsets is strictly         *)
(* ascending, jumpdest_targets has the same length and is non-decreasing.  *)
(***************************************************************************)
C7_OffsetsAscendingTargetsParallel ==
    /\ Len(jumpdest_offsets) = Len(jumpdest_targets)
    /\ \A i, j \in 1..Len(jumpdest_offsets) :
           i < j => /\ jumpdest_offsets[i] < jumpdest_offsets[j]
                    /\ jumpdest_targets[i] <= jumpdest_targets[j]

C7_Witness == phase = "analyzed" /\ Len(jumpdest_offsets) >= 3

(***************************************************************************)
(* C8: for every block and every stack height h in 0..1024 at its entry,   *)
(* the stack checks of the BEGINBLOCK prologue pass exactly when checking  *)
(* the block's opcodes one at a time (height >= stack_req before, height   *)
(* <= 1024 after the stack_change) never fails.                            *)
(***************************************************************************)
RECURSIVE PerOpcodeStackOK(_, _, _, _)
PerOpcodeStackOK(rv, cd, ps, h) ==
    IF ps = <<>> THEN TRUE
    ELSE LET e == op_tbl(rv, cd[Head(ps) + 1])
         IN /\ h >= e.stack_req
            /\ h + e.stack_change <= StackLimit
            /\ PerOpcodeStackOK(rv, cd, Tail(ps), h + e.stack_change)

C8_BlockGuardEqualsPerOpcodeChecks ==
    AnalysisDone =>
        LET bbs == BeginBlocks(instrs)
            blocks == RefBlocks(code)
        IN /\ Len(bbs) = Len(blocks)
           /\ \A k \in 1..Len(bbs) : \A h \in 0..StackLimit :
                  BlockStackGuard(instrs[bbs[k]].arg.block, h)
                      <=> PerOpcodeStackOK(rev, code, blocks[k], h)

\* a block that needs two entries and one whose growth of 2 overflows
C8_Witness ==
    /\ phase = "analyzed"
    /\ \E i \in 1..Len(instrs) :
           /\ instrs[i].arg.tag = "block"
           /\ instrs[i].arg.block.stack_req = 2
           /\ ~BlockStackGuard(instrs[i].arg.block, 1)
    /\ \E i \in 1..Len(instrs) :
           /\ instrs[i].arg.tag = "block"
           /\ instrs[i].arg.block.stack_max_growth = 2
           /\ ~BlockStackGuard(instrs[i].arg.block, StackLimit - 1)

(***************************************************************************)
(* C9: the gas_cost in the header of the k-th BEGINBLOCK equals the sum of *)
(* the base gas costs of the opcodes of the k-th basic block of the code   *)
(* (its JUMPDEST included, PUSH data and other blocks excluded).           *)
(***************************************************************************)
C9_BlockGasIsSumOfBaseCosts ==
    AnalysisDone =>
        LET bbs == BeginBlocks(instrs)
            blocks == RefBlocks(code)
        IN /\ Len(bbs) = Len(blocks)
           /\ \A k \in 1..Len(bbs) :
                  /\ instrs[bbs[k]].arg.tag = "block"
                  /\ instrs[bbs[k]].arg.block.gas_cost = SumGas(rev, code, blocks[k])

\* the second block, JUMPDEST, ADD, JUMP, costs 1 + 3 + 8 and leaves out the
\* ADD of the first block
C9_Witness ==
    /\ phase = "analyzed"
    /\ code = <<OP_ADD, OP_JUMPDEST, OP_ADD, OP_JUMP>>
    /\ instrs[1].arg.block.gas_cost = 3
    /\ instrs[3].arg.block.gas_cost = 12

(***************************************************************************)
(* C3 as stated: executing 0x6004565B00 (PUSH1 4, JUMP, JUMPDEST, STOP)    *)
(* with sufficient gas ends with status SUCCESS.                           *)
(***************************************************************************)
C3_Original ==
    (phase = "done" /\ code = Scenario_Jump4 /\ msg_gas = ScenarioGas) =>
        result.status_code = "EVMC_SUCCESS"

(***************************************************************************)
(* C3 amended: the JUMPDEST of PUSH1 n, JUMP, JUMPDEST, STOP is at offset  *)
(* 3.  Executing 0x6003565B00 with sufficient gas ends with SUCCESS: the   *)
(* JUMP resolves through find_jumpdest to index 3 of instrs, the           *)
(* BEGINBLOCK that replaces the JUMPDEST, whose block (cost 1) is entered  *)
(* and runs to the STOP.  Executing 0x6004565B00 ends with                 *)
(* BAD_JUMP_DESTINATION, offset 4 holding the STOP.                        *)
(***************************************************************************)
C3_JumpToJumpdest ==
    /\ (phase = "done" /\ code = Scenario_Jump3 /\ msg_gas = ScenarioGas) =>
           /\ result = [status_code |-> "EVMC_SUCCESS", gas_left |-> ScenarioGas - 12]
           /\ jumpdest_offsets = <<3>>
           /\ jumpdest_targets = <<3>>
           /\ instrs[4].fn = "opx_beginblock"
           /\ current_block_cost = 1
    /\ (phase = "dispatch" /\ code = Scenario_Jump3 /\ msg_gas = ScenarioGas) =>
           instr \in {0, 1, 2, 3, 4, NULL}
    /\ (phase = "done" /\ code = Scenario_Jump4 /\ msg_gas = ScenarioGas) =>
           result.status_code = "EVMC_BAD_JUMP_DESTINATION"

\* the run of 0x6003565B00 stands at the STOP behind the jumped-to BEGINBLOCK
C3_Witness ==
    /\ phase = "dispatch"
    /\ code = Scenario_Jump3
    /\ instr = 4
    /\ stack = <<>>
    /\ gas_left = ScenarioGas - 12

(***************************************************************************)
(* C10: the result of execute carries the state's status; its gas_left is  *)
(* the state's gas_left when the status is SUCCESS or REVERT and 0 for     *)
(* every other status.  PUSH1 0, JUMP ends with BAD_JUMP_DESTINATION and   *)
(* gas_left 0.                                                             *)
(***************************************************************************)
C10_ResultGasLeft ==
    phase = "done" =>
        /\ result.status_code = status
        /\ status \in {"EVMC_SUCCESS", "EVMC_REVERT"} => result.gas_left = gas_left
        /\ status \notin {"EVMC_SUCCESS", "EVMC_REVERT"} => result.gas_left = 0
        /\ code = Scenario_BadJump /\ msg_gas = ScenarioGas =>
               result = [status_code |-> "EVMC_BAD_JUMP_DESTINATION", gas_left |-> 0]

\* the bad jump ended with gas still in the state, which the result drops
C10_Witness ==
    /\ phase = "done"
    /\ code = Scenario_BadJump
    /\ status = "EVMC_BAD_JUMP_DESTINATION"
    /\ gas_left = ScenarioGas - 11
    /\ result.gas_left = 0

(***************************************************************************)
(* C11: the BEGINBLOCK prologue checks gas, then stack underflow, then     *)
(* stack overflow.  The first failing check ends the execution with        *)
(* OUT_OF_GAS, STACK_UNDERFLOW or STACK_OVERFLOW, returns null and leaves  *)
(* gas_left, current_block_cost and the stack as they were; when all pass, *)
(* block.gas_cost is deducted from gas_left and stored in                  *)
(* current_block_cost, and instr + 1 is returned.                          *)
(***************************************************************************)
AtBeginblock ==
    phase = "dispatch" /\ instr # NULL /\ instrs[instr + 1].fn = "opx_beginblock"

PrologueFails(status_code) ==
    /\ instr' = NULL
    /\ status' = status_code
    /\ UNCHANGED <<gas_left, current_block_cost, stack>>

C11_BeginblockPrologue ==
    [][AtBeginblock =>
        LET b == instrs[instr + 1].arg.block
        IN IF gas_left < b.gas_cost THEN PrologueFails("EVMC_OUT_OF_GAS")
           ELSE IF Len(stack) < b.stack_req THEN PrologueFails("EVMC_STACK_UNDERFLOW")
           ELSE IF Len(stack) + b.stack_max_growth > StackLimit
                THEN PrologueFails("EVMC_STACK_OVERFLOW")
           ELSE /\ instr' = instr + 1
                /\ gas_left' = gas_left - b.gas_cost
                /\ current_block_cost' = b.gas_cost
                /\ UNCHANGED <<stack, status>>]_vars

\* the loop has filled the stack: the prologue found enough gas and enough
\* items but no room for the block's growth of 2
C11_Witness ==
    /\ phase = "done"
    /\ code = Scenario_Overflow
    /\ status = "EVMC_STACK_OVERFLOW"
    /\ Len(stack) = StackLimit - 1
    /\ gas_left = OverflowGas - 15 * (StackLimit - 1)

(***************************************************************************)
(* C12: in every execution (none of the modelled handlers charges a        *)
(* dynamic cost) the gas used so far, initial gas - gas_left, is the sum   *)
(* of block.gas_cost over the BEGINBLOCK entries passed, a block counted   *)
(* each time it is entered, and never less than the summed base costs of   *)
(* the opcodes executed; when the execution has ended with SUCCESS the     *)
(* two sums are equal: nothing was charged for an opcode not executed.     *)
(***************************************************************************)
C12_GasUsedIsBlocksEnteredIsOpcodesExecuted ==
    /\ phase \in {"dispatch", "done"} =>
          /\ msg_gas - gas_left = hist.entered_cost
          /\ hist.executed_cost <= hist.entered_cost
    /\ phase = "done" /\ status = "EVMC_SUCCESS" =>
          /\ msg_gas - result.gas_left = hist.entered_cost
          /\ hist.entered_cost = hist.executed_cost

\* the loop scenario has ended: 6 for the first block, 14 twice for the
\* block of the JUMPDEST, 0 for the block of the STOP
C12_Witness ==
    /\ phase = "done"
    /\ code = Scenario_Loop
    /\ status = "EVMC_SUCCESS"
    /\ hist.executed_cost = 6 + 14 + 14
    /\ result.gas_left = ScenarioGas - 34

(***************************************************************************)
(* C13: find_jumpdest(analysis, offset) returns jumpdest_targets[i] when   *)
(* offset = jumpdest_offsets[i] and -1 for every other offset: negative,   *)
(* past the end of the code, of an opcode other than JUMPDEST, of a 0x5B   *)
(* byte in PUSH data.  A JUMP or a taken JUMPI to an offset with -1 ends   *)
(* the execution with BAD_JUMP_DESTINATION; otherwise the next instruction *)
(* is a BEGINBLOCK entry.                                                  *)
(***************************************************************************)
\* the offsets asked for: from below 0 to past the end of the code
JumpOffsets == -2..(Len(code) + 2)

IsJumpdestOpcodeOffset(cd, offset) ==
    InSeq(OpcodeOffsets(cd, 0), offset) /\ cd[offset + 1] = OP_JUMPDEST

FindJumpdestContract ==
    phase \in {"dispatch", "done"} =>
        \A offset \in JumpOffsets :
            LET r == find_jumpdest(jumpdest_offsets, jumpdest_targets, offset)
                hits == {i \in 1..Len(jumpdest_offsets) : jumpdest_offsets[i] = offset}
            IN /\ hits # {} => \E i \in hits : r = jumpdest_targets[i]
               /\ hits = {} => r = -1
               /\ r # -1 <=> IsJumpdestOpcodeOffset(code, offset)

AtTakenJump ==
    /\ phase = "dispatch"
    /\ instr # NULL
    /\ \/ instrs[instr + 1].fn = "op_jump"
       \/ instrs[instr + 1].fn = "op_jumpi" /\ Top(stack, 1) # 0

JumpContract ==
    AtTakenJump =>
        LET r == find_jumpdest(jumpdest_offsets, jumpdest_targets, Top(stack, 0))
        IN IF r = -1
           THEN instr' = NULL /\ status' = "EVMC_BAD_JUMP_DESTINATION"
           ELSE /\ instr' = r
                /\ instrs[r + 1].fn = "opx_beginblock"
                /\ status' = status

C13_FindJumpdest == [](FindJumpdestContract) /\ [][JumpContract]_vars

\* the jump to the 0x5B byte that PUSH1 carries has ended the execution,
\* the pushed 0x5B is still on the stack
C13_Witness ==
    /\ phase = "done"
    /\ code = Scenario_JumpIntoPushData
    /\ status = "EVMC_BAD_JUMP_DESTINATION"
    /\ stack = <<OP_JUMPDEST>>
    /\ find_jumpdest(jumpdest_offsets, jumpdest_targets, 1) = -1

(***************************************************************************)
(* C14: a terminator opcode immediately followed by a JUMPDEST.            *)
(* As claimed: the two entries after the terminator's instruction are      *)
(* both BEGINBLOCKs, and the second is the one recorded in                 *)
(* jumpdest_targets for the JUMPDEST (C14_Original).                       *)
(* As the code has it: exactly one BEGINBLOCK follows the terminator's     *)
(* instruction, it is the one recorded in jumpdest_targets for the         *)
(* JUMPDEST, and the entry after it is the handler of the opcode after     *)
(* the JUMPDEST: a BEGINBLOCK only when that opcode is another JUMPDEST,   *)
(* the trailing STOP when the code ends there (C14_OneBeginblock).         *)
(***************************************************************************)
\* offsets of the terminator opcodes that a JUMPDEST follows directly
TerminatorsBeforeJumpdest(cd) ==
    {p \in 0..(Len(cd) - 2) :
        /\ InSeq(OpcodeOffsets(cd, 0), p)
        /\ cd[p + 1] \in RefTerminators
        /\ cd[p + 2] = OP_JUMPDEST}

\* the index in ins of the entry of the opcode at offset p (not a JUMPDEST)
InstrOfOffset(cd, ins, p) ==
    CHOOSE i \in 0..(Len(ins) - 1) :
        ins[i + 1].fn # "opx_beginblock" /\ OffsetOfInstr(cd, ins, i) = p

TargetOfOffset(offsets, targets, offset) ==
    targets[CHOOSE i \in 1..Len(offsets) : offsets[i] = offset]

C14_Original ==
    AnalysisDone =>
        \A p \in TerminatorsBeforeJumpdest(code) :
            LET t == InstrOfOffset(code, instrs, p)
            IN /\ instrs[t + 2].fn = "opx_beginblock"
               /\ instrs[t + 3].fn = "opx_beginblock"
               /\ TargetOfOffset(jumpdest_offsets, jumpdest_targets, p + 1) = t + 2

C14_OneBeginblock ==
    AnalysisDone =>
        \A p \in TerminatorsBeforeJumpdest(code) :
            LET t == InstrOfOffset(code, instrs, p)
                after == instrs[t + 3].fn
            IN /\ instrs[t + 2].fn = "opx_beginblock"
               /\ TargetOfOffset(jumpdest_offsets, jumpdest_targets, p + 1) = t + 1
               /\ IF p + 2 = Len(code) THEN t + 3 = Len(instrs) /\ after = "op_stop"
                  ELSE after = op_tbl(rev, code[p + 3]).fn
               /\ after = "opx_beginblock" <=>
                      (p + 2 < Len(code) /\ code[p + 3] = OP_JUMPDEST)

\* JUMP, JUMPDEST, ADD analysed: one BEGINBLOCK between the JUMP and the ADD
C14_Witness ==
    /\ AnalysisDone
    /\ code = <<OP_JUMP, OP_JUMPDEST, OP_ADD>>
    /\ Fns(instrs) = <<"opx_beginblock", "op_jump", "opx_beginblock", "op_add", "op_stop">>
    /\ jumpdest_offsets = <<1>>
    /\ jumpdest_targets = <<2>>

(***************************************************************************)
(* C15: for every GAS, CALL, CALLCODE, DELEGATECALL, STATICCALL, CREATE,   *)
(* CREATE2 or SSTORE instruction arg.number is the sum of the base gas     *)
(* costs of the opcodes of its block from the block start up to and        *)
(* including it.  When the instruction is about to run,                    *)
(* gas_left + (current_block_cost - arg.number) is the gas that            *)
(* per-instruction metering shows after charging it: the initial gas minus *)
(* the base costs of the opcodes executed so far and its own; the value is *)
(* never negative, and it is what the GAS handler pushes.                  *)
(***************************************************************************)
\* the block (a sequence of offsets) of the opcode at offset p
RefBlockOf(cd, p) ==
    LET bs == RefBlocks(cd)
    IN bs[CHOOSE k \in 1..Len(bs) : InSeq(bs[k], p)]

\* summed base costs of the block of p from its start up to and including p
PrefixCost(rv, cd, p) ==
    SumGas(rv, cd, SelectSeq(RefBlockOf(cd, p), LAMBDA q : q <= p))

ArgNumberIsPrefixCost ==
    phase \in {"dispatch", "done"} =>
        \A i \in 0..(Len(instrs) - 1) :
            LET p == OffsetOfInstr(code, instrs, i)
            IN (instrs[i + 1].fn # "opx_beginblock" /\ p # NULL /\ code[p + 1] \in GasSensitive)
                   => /\ instrs[i + 1].arg.tag = "number"
                      /\ instrs[i + 1].arg.number = PrefixCost(rev, code, p)

AtGas == phase = "dispatch" /\ instr # NULL /\ instrs[instr + 1].fn = "op_gas"

\* gas_left + (current_block_cost - arg.number) at the current instruction
LiveGas == gas_left + (current_block_cost - instrs[instr + 1].arg.number)

\* what metering each instruction by itself shows after the current one
MeteredGas ==
    msg_gas - (hist.executed_cost
                 + ExecutedCost(rev, code, instrs, jumpdest_targets, instr))

LiveGasIsMeteredGas == AtGas => LiveGas = MeteredGas /\ LiveGas >= 0

GasPushesLiveGas == AtGas => stack' = Append(stack, LiveGas)

C15_GasCorrection ==
    /\ [](ArgNumberIsPrefixCost /\ LiveGasIsMeteredGas)
    /\ [][GasPushesLiveGas]_vars

\* PUSH1 0, GAS, STOP, ADD, SSTORE has run: GAS carries 3 + 2 and has pushed
\* the initial gas less 5, the SSTORE carries the 3 of the ADD and its own 0
C15_Witness ==
    /\ phase = "done"
    /\ code = Scenario_GasSstore
    /\ status = "EVMC_SUCCESS"
    /\ instrs[3].fn = "op_gas" /\ instrs[3].arg.number = 5
    /\ instrs[7].fn = "op_sstore" /\ instrs[7].arg.number = 3
    /\ stack = <<0, ScenarioGas - 5>>

(***************************************************************************)
(* C16: for a small PUSHn (n in 1..8) with k <= n immediate bytes          *)
(* b_0..b_(k-1) before the end of the code, small_push_value is the sum    *)
(* over i < k of b_i * 256^(n-1-i): b_i is the byte of weight 256^(n-1-i)  *)
(* of the value and every other byte of the value is zero.  The analyzer   *)
(* consumes exactly k bytes.                                               *)
(***************************************************************************)
\* the push at offset 0 of the codes of SpecPush: its n and its k
PushN == code[1] - OP_PUSH1 + 1
PushK == Min(PushN, Len(code) - 1)

\* the bytes of the claimed sum, least significant first: the byte of
\* weight 256^j is b_(n-1-j) when that byte is there, 0 otherwise
ClaimedPushValue ==
    [j \in 0..7 |-> IF j <= PushN - 1 /\ PushN - 1 - j < PushK
                     THEN code[(PushN - 1 - j) + 2] ELSE 0]

\* the claimed sum as a number, for the pushes whose value the integers hold
RECURSIVE ClaimedPushSum(_)
ClaimedPushSum(i) ==
    IF i >= PushK THEN 0
    ELSE LET weight == IF PushN - 1 - i = 0 THEN 1
                       ELSE IF PushN - 1 - i = 1 THEN 256 ELSE 65536
         IN code[i + 2] * weight + ClaimedPushSum(i + 1)

C16_TruncatedSmallPush ==
    (code[1] \in ANY_SMALL_PUSH /\ hist.iterations >= 1) =>
        LET v == instrs[2].arg.small_push_value
        IN /\ instrs[2].fn = "op_push_small"
           /\ instrs[2].arg.tag = "small_push_value"
           /\ \A j \in 0..7 : v[j + 1] = ClaimedPushValue[j]
           /\ PushN <= 3 => U64ToNat(v) = ClaimedPushSum(0)
           /\ hist.iterations = 1 => code_pos = 1 + PushK

\* PUSH4 with the two bytes 0x01, 0xFF left: the value is 0x01FF0000
C16_Witness ==
    /\ AnalysisDone
    /\ code = <<OP_PUSH1 + 3, 1, 255>>
    /\ instrs[2].arg.small_push_value = <<0, 0, 255, 1, 0, 0, 0, 0>>
    /\ Len(instrs) = 3

(***************************************************************************)
(* C17: for every code the scan position of analyze is never beyond        *)
(* code_size, no iteration reads a byte at an index >= code_size (as       *)
(* opcode, as immediate of a small push, by the look-ahead for a           *)
(* JUMPDEST), every iteration moves the position forward, the loop makes   *)
(* at most code_size iterations, and analyze returns; also for a code      *)
(* that ends in a truncated small or large push.                           *)
(***************************************************************************)
ScanInCode == code_pos \in 0..Len(code) /\ hist.iterations <= Len(code)

ScanStep ==
    (phase = "analyze" /\ code_pos # Len(code)) =>
        /\ ReadOffsets(code, code_pos) \subseteq 0..(Len(code) - 1)
        /\ code_pos' > code_pos

Dispatching == phase = "dispatch" /\ instr # NULL

\* only JUMP and JUMPI leave the straight line, and to a recorded target
StraightOrJump ==
    (Dispatching /\ instr' # NULL /\ instr' # instr + 1) =>
        /\ instrs[instr + 1].fn \in {"op_jump", "op_jumpi"}
        /\ InSeq(jumpdest_targets, instr')
        /\ instrs[instr' + 1].fn = "opx_beginblock"

\* passing the BEGINBLOCK of a JUMPDEST costs gas
TargetCharges ==
    (Dispatching /\ InSeq(jumpdest_targets, instr) /\ instr' # NULL) =>
        /\ instrs[instr + 1].arg.block.gas_cost > 0
        /\ gas_left' < gas_left

C18_DispatchLoopEnds ==
    /\ [][StraightOrJump /\ TargetCharges]_vars
    /\ (phase = "dispatch") ~> (phase = "dispatch" /\ instr = NULL)
    /\ (phase = "dispatch") ~> (phase = "done")

\* the loop JUMPDEST, PUSH1 0, JUMP has turned for as long as the gas
\* paid the 12 of its block, more than once, and ended out of gas
C18_Witness ==
    /\ phase = "done"
    /\ code = <<OP_JUMPDEST, OP_PUSH1, 0, OP_JUMP>>
    /\ status = "EVMC_OUT_OF_GAS"
    /\ hist.entered_cost = 12 * (LoopGas \div 12)
    /\ hist.entered_cost > 12

(***************************************************************************)
(* C19: during an execution the current instruction is always an entry of  *)
(* instrs (index in 0..|instrs|-1): the last entry is the STOP handler,    *)
(* and a jump lands on an index of jumpdest_targets.  Every terminator's   *)
(* entry is directly followed by a BEGINBLOCK and every jump target is a   *)
(* BEGINBLOCK, so an entry other than a BEGINBLOCK is only run after the   *)
(* prologue of its own block (the nearest BEGINBLOCK before it) has        *)
(* passed, with no other prologue since.                                   *)
(***************************************************************************)
\* the index of the BEGINBLOCK of the block that the entry at index i is in
BeginblockOf(ins, i) ==
    CHOOSE b \in 0..i :
        /\ ins[b + 1].fn = "opx_beginblock"
        /\ \A j \in (b + 1)..i : ins[j + 1].fn # "opx_beginblock"

BlocksAreClosed ==
    /\ instrs[Len(instrs)].fn = "op_stop"
    /\ \A k \in 1..Len(jumpdest_targets) :
           /\ jumpdest_targets[k] \in 0..(Len(instrs) - 1)
           /\ instrs[jumpdest_targets[k] + 1].fn = "opx_beginblock"
    /\ \A i \in 0..(Len(instrs) - 2) :
           LET p == OffsetOfInstr(code, instrs, i)
           IN (instrs[i + 1].fn # "opx_beginblock" /\ code[p + 1] \in RefTerminators)
                  => instrs[i + 2].fn = "opx_beginblock"

C19_InstrInsideInstrs ==
    phase = "dispatch" =>
        /\ BlocksAreClosed
        /\ instr # NULL =>
              /\ instr \in 0..(Len(instrs) - 1)
              /\ instrs[instr + 1].fn # "opx_beginblock" =>
                     hist.cur_block = BeginblockOf(instrs, instr)

\* the loop scenario in its second turn: the PUSH1 of the JUMPDEST's block
\* is the current instruction, entered through the BEGINBLOCK at index 3
\* by the JUMPI
C19_Witness ==
    /\ phase = "dispatch"
    /\ code = Scenario_Loop
    /\ instr = 4
    /\ instrs[instr + 1].fn = "op_push_small"
    /\ hist.cur_block = 3
    /\ hist.entered_cost = 6 + 14 + 14
    /\ stack = <<0>>

(***************************************************************************)
(* C20: during analyze the arg.block of a BEGINBLOCK entry is written      *)
(* once, when its block closes: the BEGINBLOCK of the open block has no    *)
(* argument written, every other BEGINBLOCK has exactly the one write of   *)
(* arg.block, and no write of small_push_value, push_value or number is on *)
(* a BEGINBLOCK, also not when a JUMPDEST is scanned and instrs.back() is  *)
(* the BEGINBLOCK.  When a block closes with an accumulated stack_req      *)
(* above the 16-bit maximum, the stored stack_req is 32767 and the stack   *)
(* checks of the prologue reject the block for every height in 0..1024;    *)
(* up to the maximum the stored stack_req is the accumulated one.          *)
(***************************************************************************)
ArgWrites ==
    phase \in {"analyze", "analyzed"} =>
        \A i \in 1..Len(instrs) :
            IF instrs[i].fn = "opx_beginblock"
            THEN IF phase = "analyze" /\ i = block.begin_block_index + 1
                 THEN instrs[i].writes = <<>>
                 ELSE instrs[i].writes = <<"block">> /\ instrs[i].arg.tag = "block"
            ELSE /\ Len(instrs[i].writes) <= 1
                 /\ \A k \in 1..Len(instrs[i].writes) : instrs[i].writes[k] # "block"

\* after a run of POPs that no JUMPDEST follows the scan is in the state
\* AfterPops
PopsScanned ==
    (/\ phase = "analyze"
     /\ \A i \in 1..code_pos : code[i] = OP_POP
     /\ code_pos = 0 \/ ~NextIsJumpdest(code, code_pos)) =>
        CurAnalysis = AfterPops(rev, code_pos) /\ hist.iterations = code_pos

\* a step that writes the arg.block of the open block stores the clamped
\* accumulators: those after line 69 in the loop, those of the last block
\* after the loop
ClosingStep ==
    phase = "analyze" =>
        LET bbi == block.begin_block_index
            acc == IF code_pos = Len(code) THEN block
                   ELSE UpdateBlock(block, op_tbl(rev, code[code_pos + 1]))
            stored == instrs'[bbi + 1].arg.block
        IN instrs'[bbi + 1].writes # instrs[bbi + 1].writes =>
               /\ instrs'[bbi + 1].writes = <<"block">>
               /\ stored.stack_req =
                      IF acc.stack_req > INT16_MAX THEN INT16_MAX ELSE acc.stack_req
               /\ acc.stack_req > INT16_MAX =>
                      \A h \in 0..StackLimit : ~BlockStackGuard(stored, h)

C20_BlockWrittenOnceAndSaturates ==
    /\ [](ArgWrites /\ PopsScanned)
    /\ [][ClosingStep]_vars

\* 32768 POPs and a JUMPDEST: the block of the POPs has closed before the
\* JUMPDEST with a stack_req of 32768, stored as 32767
C20_Witness ==
    /\ AnalysisDone
    /\ code = Pops(INT16_MAX + 1) \o <<OP_JUMPDEST>>
    /\ instrs[1].writes = <<"block">>
    /\ instrs[1].arg.block.stack_req = INT16_MAX
    /\ instrs[1].arg.block.gas_cost = 2 * (INT16_MAX + 1)
    /\ jumpdest_targets = <<INT16_MAX + 2>>
    /\ instrs[INT16_MAX + 3].writes = <<"block">>

====
